---- MODULE Spec2Model ----
(***************************************************************************)
(* A model of package rpc (geoah/go-rpc): the Service registry            *)
(* (Register), the HTTP dispatcher (Serve) and the client (Call),         *)
(* together with the parts of reflect, encoding/json and net/http the     *)
(* three of them rely on.                                                  *)
(***************************************************************************)
EXTENDS Integers, Sequences, FiniteSets, TLC

\* ------------------------------------------------------------------ bounds
\* Payload integers range over 0..MaxInt.
MaxInt == 1
\* Sequence numbers a hand-written client may choose range over 0..MaxSeq.
MaxSeq == 1
\* Number of Register calls recorded in the registration history.
MaxRegs == 3

\* ------------------------------------------------------- reflect: types
\* A reflect.Type: Kind(), Name(), PkgPath() and, for pointers, Elem().
StructT(name, pkg) == [kind |-> "struct", name |-> name, pkgPath |-> pkg]
IntT == [kind |-> "int", name |-> "int", pkgPath |-> ""]
PtrT(e) == [kind |-> "ptr", name |-> "", pkgPath |-> "", elem |-> e]
typeOfError == [kind |-> "interface", name |-> "error", pkgPath |-> ""]

\* The names of the universe that begin with an upper-case letter.
ExportedNames ==
  {"Math", "Mixed", "AddRequest", "AddResponse",
   "Add", "Div", "Abs", "Ok", "Raw", "OneArg", "ByValue", "ResByValue",
   "Unexp", "UnexpRes", "Prim", "NoRet", "RetInt", "TwoRet"}

\* token.IsExported: whether the name begins with an upper-case letter.
IsExported(name) == name \in ExportedNames

\* ------------------------------------------ the objects given to Register
MathT == StructT("Math", "rpc")
MixedT == StructT("Mixed", "rpc")
calcT == StructT("calc", "rpc")
AnonT == StructT("", "")
AddRequestT == StructT("AddRequest", "rpc")
AddResponseT == StructT("AddResponse", "rpc")
secretT == StructT("secret", "rpc")

\* A declared method: its name, the package path reflect reports for it
\* ("" when exported), the receiver kind it is declared on, its explicit
\* parameter types, its result types and the procedure it runs.
Decl(name, pkg, recv, params, outs, proc) ==
  [Name |-> name, PkgPath |-> pkg, recv |-> recv, params |-> params,
   outs |-> outs, proc |-> proc]

\* func (m *Math) Add(req *AddRequest, res *AddResponse) error
\* func (m *Math) Div(req *AddRequest, res *AddResponse) error
\* func (m Math)  Abs(req *AddRequest, res *AddResponse) error
MathMethods ==
  << Decl("Abs", "", "val", <<PtrT(AddRequestT), PtrT(AddResponseT)>>,
          <<typeOfError>>, "Abs"),
     Decl("Add", "", "ptr", <<PtrT(AddRequestT), PtrT(AddResponseT)>>,
          <<typeOfError>>, "Add"),
     Decl("Div", "", "ptr", <<PtrT(AddRequestT), PtrT(AddResponseT)>>,
          <<typeOfError>>, "Div") >>

\* A type with one method per way of missing the calling convention.
MixedMethods ==
  << Decl("ByValue", "", "ptr", <<AddRequestT, PtrT(AddResponseT)>>,
          <<typeOfError>>, "Add"),
     Decl("NoRet", "", "ptr", <<PtrT(AddRequestT), PtrT(AddResponseT)>>,
          <<>>, "Add"),
     Decl("Ok", "", "ptr", <<PtrT(AddRequestT), PtrT(AddResponseT)>>,
          <<typeOfError>>, "Add"),
     Decl("OneArg", "", "ptr", <<PtrT(AddRequestT)>>,
          <<typeOfError>>, "Add"),
     Decl("Prim", "", "ptr", <<PtrT(IntT), PtrT(IntT)>>,
          <<typeOfError>>, "Inc"),
     Decl("Raw", "", "ptr", <<PtrT(AddRequestT), PtrT(AddResponseT)>>,
          <<typeOfError>>, "Raw"),
     Decl("ResByValue", "", "ptr", <<PtrT(AddRequestT), AddResponseT>>,
          <<typeOfError>>, "Add"),
     Decl("RetInt", "", "ptr", <<PtrT(AddRequestT), PtrT(AddResponseT)>>,
          <<IntT>>, "Add"),
     Decl("TwoRet", "", "ptr", <<PtrT(AddRequestT), PtrT(AddResponseT)>>,
          <<IntT, typeOfError>>, "Add"),
     Decl("Unexp", "", "ptr", <<PtrT(secretT), PtrT(AddResponseT)>>,
          <<typeOfError>>, "Open"),
     Decl("UnexpRes", "", "ptr", <<PtrT(AddRequestT), PtrT(secretT)>>,
          <<typeOfError>>, "Seal"),
     Decl("hidden", "rpc", "ptr", <<PtrT(AddRequestT), PtrT(AddResponseT)>>,
          <<typeOfError>>, "Add") >>

\* func (c *calc) Add(req *AddRequest, res *AddResponse) error
calcMethods ==
  << Decl("Add", "", "ptr", <<PtrT(AddRequestT), PtrT(AddResponseT)>>,
          <<typeOfError>>, "Add") >>

\* The methods declared on a named struct type, sorted by name.
DeclaredMethods(t) ==
  CASE t = MathT -> MathMethods
    [] t = MixedT -> MixedMethods
    [] t = calcT -> calcMethods
    [] OTHER -> <<>>

\* An object handed to Register: the dynamic type of the interface value and
\* the identity of the instance it holds or points to.
Obj(id, type) == [id |-> id, type |-> type]
mathA == Obj(1, PtrT(MathT))
mathB == Obj(2, PtrT(MathT))
mathV == Obj(3, MathT)
mixed == Obj(4, PtrT(MixedT))
calc == Obj(5, PtrT(calcT))
anon == Obj(6, PtrT(AnonT))
mathPP == Obj(7, PtrT(PtrT(MathT)))
Objs == {mathA, mathB, mathV, mixed, calc, anon, mathPP}

\* reflect.Indirect(v).Type(): the pointed-to type of a pointer, else the type.
IndirectType(t) == IF t.kind = "ptr" THEN t.elem ELSE t

\* The method set of type t as reflect lists it (Type.NumMethod, Type.Method):
\* exported methods only, sorted by name; a pointer type has the methods of
\* both receiver kinds, a struct type those declared on the value.  Each is a
\* reflect.Method whose Type has the receiver as In(0).
MethodSet(t) ==
  LET base == IndirectType(t)
      InSet(d) == /\ d.PkgPath = ""
                  /\ (t.kind = "ptr" \/ d.recv = "val")
      AsMethod(d) == [Name |-> d.Name, PkgPath |-> d.PkgPath,
                      ins |-> <<t>> \o d.params, outs |-> d.outs,
                      proc |-> d.proc]
      kept == SelectSeq(DeclaredMethods(base), InSet)
  IN [k \in 1..Len(kept) |-> AsMethod(kept[k])]

\* ------------------------------------------------------- Go values
\* A value of a payload type: a struct is a record of its (int) fields, an
\* int is the record [int |-> n].  A pointer is nil or refers to a value.
Fields(t) ==
  CASE t = AddRequestT -> {"A", "B"}
    [] t = AddResponseT -> {"X"}
    [] t = secretT -> {"V"}
    [] OTHER -> {}
\* reflect.New(t): the zero value of t.
Zero(t) == IF t.kind = "struct" THEN [f \in Fields(t) |-> 0] ELSE [int |-> 0]
NilPtr == [nil |-> TRUE]
Ref(v) == [nil |-> FALSE, v |-> v]
\* A value encoding/json cannot encode (a channel).
Chan == [nil |-> FALSE, v |-> [chan |-> TRUE]]

\* ------------------------------------------------------- encoding/json
\* JSON texts: a JSON value, or bytes that are not JSON, or no bytes at all.
JNull == [k |-> "null"]
JNum(n) == [k |-> "num", n |-> n]
JStr(s) == [k |-> "str", s |-> s]
JObj(f) == [k |-> "obj", f |-> f]
Malformed == [k |-> "bad"]
Empty == [k |-> "empty"]

\* json.Marshal of a payload argument: null for a nil pointer, a number for
\* an int, an object with every field for a struct; an error for a channel.
Marshal(p) ==
  IF p.nil THEN [ok |-> TRUE, data |-> JNull]
  ELSE IF "chan" \in DOMAIN p.v THEN [ok |-> FALSE, data |-> Empty]
  ELSE IF "int" \in DOMAIN p.v THEN [ok |-> TRUE, data |-> JNum(p.v.int)]
  ELSE [ok |-> TRUE, data |-> JObj([f \in DOMAIN p.v |-> JNum(p.v[f])])]

\* json.Unmarshal(data, &cur) for cur of type t: the value left in cur and
\* whether the error is nil.  Invalid bytes leave cur alone; null is a no-op;
\* an object sets the fields it names, a field of the wrong JSON kind is
\* skipped and reported, the others are still set.
UnmarshalInto(data, t, cur) ==
  CASE data.k \in {"empty", "bad"} -> [ok |-> FALSE, v |-> cur]
    [] data.k = "null" -> [ok |-> TRUE, v |-> cur]
    [] data.k = "num" ->
         IF t.kind = "int" THEN [ok |-> TRUE, v |-> [int |-> data.n]]
         ELSE [ok |-> FALSE, v |-> cur]
    [] data.k = "str" -> [ok |-> FALSE, v |-> cur]
    [] data.k = "obj" ->
         IF t.kind # "struct" THEN [ok |-> FALSE, v |-> cur]
         ELSE LET given == Fields(t) \cap DOMAIN data.f
                  Sets(f) == f \in given /\ data.f[f].k = "num"
                  Bad(f) == f \in given /\ data.f[f].k \notin {"num", "null"}
              IN [ok |-> \A f \in Fields(t) : ~ Bad(f),
                  v |-> [f \in Fields(t) |->
                           IF Sets(f) THEN data.f[f].n ELSE cur[f]]]

\* json.Unmarshal(data, pp) for pp a pointer to a nil *t (rpc.go:190-191):
\* null leaves the pointer nil, any other value allocates a t and fills it.
UnmarshalPtr(data, t) ==
  CASE data.k \in {"empty", "bad"} -> [ok |-> FALSE, p |-> NilPtr]
    [] data.k = "null" -> [ok |-> TRUE, p |-> NilPtr]
    [] OTHER -> LET r == UnmarshalInto(data, t, Zero(t))
                IN [ok |-> r.ok, p |-> Ref(r.v)]

\* Decoding one field of an envelope: absent and null leave the zero value.
\* A uint64 field refuses a negative number (and one above 2^64 - 1, which no
\* number of this model reaches).
StrField(f, name) ==
  IF name \notin DOMAIN f \/ f[name].k = "null" THEN [ok |-> TRUE, v |-> ""]
  ELSE IF f[name].k = "str" THEN [ok |-> TRUE, v |-> f[name].s]
  ELSE [ok |-> FALSE, v |-> ""]
UintField(f, name) ==
  IF name \notin DOMAIN f \/ f[name].k = "null" THEN [ok |-> TRUE, v |-> 0]
  ELSE IF f[name].k = "num" /\ f[name].n >= 0
       THEN [ok |-> TRUE, v |-> f[name].n]
  ELSE [ok |-> FALSE, v |-> 0]
\* A json.RawMessage field keeps the bytes of whatever value is there.
RawField(f, name) == IF name \notin DOMAIN f THEN Empty ELSE f[name]

\* The Request and Response envelopes (rpc.go:26-36) and their zero values.
RequestOf(sm, body, seq) == [ServiceMethod |-> sm, Body |-> body, Seq |-> seq]
ResponseOf(sm, body, seq, error) ==
  [ServiceMethod |-> sm, Body |-> body, Seq |-> seq, Error |-> error]

\* json.NewDecoder(body).Decode(&req) for a Request (rpc.go:176-177).
DecodeRequest(data) ==
  CASE data.k = "null" -> [ok |-> TRUE, req |-> RequestOf("", Empty, 0)]
    [] data.k = "obj" ->
         LET sm == StrField(data.f, "ServiceMethod")
             seq == UintField(data.f, "Seq")
         IN [ok |-> sm.ok /\ seq.ok,
             req |-> RequestOf(sm.v, RawField(data.f, "Body"), seq.v)]
    [] OTHER -> [ok |-> FALSE, req |-> RequestOf("", Empty, 0)]

\* json.NewDecoder(body).Decode(&res) for a Response (rpc.go:143-144).
DecodeResponse(data) ==
  CASE data.k = "null" -> [ok |-> TRUE, res |-> ResponseOf("", Empty, 0, "")]
    [] data.k = "obj" ->
         LET sm == StrField(data.f, "ServiceMethod")
             seq == UintField(data.f, "Seq")
             er == StrField(data.f, "Error")
         IN [ok |-> sm.ok /\ seq.ok /\ er.ok,
             res |-> ResponseOf(sm.v, RawField(data.f, "Body"), seq.v, er.v)]
    [] OTHER -> [ok |-> FALSE, res |-> ResponseOf("", Empty, 0, "")]

\* json.Marshal of an envelope: an object with every field; an empty
\* RawMessage is written as null.
RawOut(raw) == IF raw.k = "empty" THEN JNull ELSE raw
MarshalRequest(req) ==
  JObj([ServiceMethod |-> JStr(req.ServiceMethod), Body |-> RawOut(req.Body),
        Seq |-> JNum(req.Seq)])
MarshalResponse(res) ==
  JObj([ServiceMethod |-> JStr(res.ServiceMethod), Body |-> RawOut(res.Body),
        Seq |-> JNum(res.Seq), Error |-> JStr(res.Error)])

\* ----------------------------------------------- the registered procedures
DivisionByZero == "division by zero"
\* An error message that is itself the text of a JSON object.
EnvelopeLike == "{\"Body\":{\"X\":1}}"

\* What a text is when read as JSON.
ParseText(s) ==
  IF s = EnvelopeLike THEN JObj([Body |-> JObj([X |-> JNum(1)])])
  ELSE Malformed

\* The body of the procedure proc run on (req, res): the error it returns
\* ("" for nil) and the response instance afterwards; dereferencing a nil
\* request panics.
ProcCall(proc, req, res) ==
  IF req.nil THEN [out |-> "panic", msg |-> "", res |-> res]
  ELSE CASE proc = "Add" ->
              [out |-> "nil", msg |-> "", res |-> [X |-> req.v.A + req.v.B]]
         [] proc = "Div" ->
              IF req.v.B = 0
              THEN [out |-> "err", msg |-> DivisionByZero, res |-> res]
              ELSE [out |-> "nil", msg |-> "",
                    res |-> [X |-> req.v.A \div req.v.B]]
         [] proc = "Abs" ->
              [out |-> "nil", msg |-> "", res |-> [X |-> req.v.A]]
         [] proc = "Raw" ->
              IF req.v.A = 0
              THEN [out |-> "err", msg |-> EnvelopeLike, res |-> res]
              ELSE [out |-> "nil", msg |-> "", res |-> [X |-> req.v.B]]
         [] proc = "Inc" ->
              [out |-> "nil", msg |-> "", res |-> [int |-> req.v.int + 1]]
         [] proc = "Open" ->
              [out |-> "nil", msg |-> "", res |-> [X |-> req.v.V]]
         [] proc = "Seal" ->
              [out |-> "nil", msg |-> "", res |-> [V |-> req.v.A]]

\* ------------------------------------------------------------ the state
VARIABLES
  Methods,   \* Service.Methods: qualified name -> Method
  lastReg,   \* the last Register call: its argument, its error, the mapping before it
  regLog,    \* the arguments of the Register calls that returned nil, in order
  conns,     \* per connection: the request in flight, the handler's locals, the response
  call,      \* the client's Call: its arguments, its position, its result
  handler    \* the handler Serve() returned: whether it exists, the mapping when it was made

vars == <<Methods, lastReg, regLog, conns, call, handler>>

\* The connections of the server.
Conns == {1, 2}

\* ------------------------------------------------------------- Register
\* One Method value as Register builds it (rpc.go:102-108).
NewMethod(methodName, iv, method, requestType, responseType) ==
  [Name |-> methodName, Receiver |-> iv, Method |-> method,
   RequestType |-> requestType, ResponseType |-> responseType]

\* The parameter and result checks of one loop iteration (rpc.go:67-100):
\* TRUE iff the iteration reaches the assignment to s.Methods.
Selected(method) ==
  LET NumIn == Len(method.ins)
      NumOut == Len(method.outs)
      requestType == method.ins[2]
      responseType == method.ins[3]
  IN /\ ~ (method.PkgPath # "")
     /\ ~ (NumIn # 3)
     /\ ~ (requestType.kind # "ptr")
     /\ ~ (~ IsExported(requestType.name) /\ requestType.pkgPath # "")
     /\ ~ (responseType.kind # "ptr")
     /\ ~ (~ IsExported(responseType.name) /\ responseType.pkgPath # "")
     /\ ~ (NumOut # 1)
     /\ ~ (method.outs[1] # typeOfError)

RECURSIVE RegisterLoopKeepFirst(_, _, _, _, _)
\* RegisterLoop, except that a key already in the mapping is left as it is.
RegisterLoopKeepFirst(ms, set, m, name, iv) ==
  IF m > Len(set) THEN ms
  ELSE LET method == set[m]
           methodName == name \o "." \o method.Name
       IN IF Selected(method) /\ methodName \notin DOMAIN ms
          THEN RegisterLoopKeepFirst(
                 [k \in DOMAIN ms \cup {methodName} |->
                    IF k = methodName
                    THEN NewMethod(methodName, iv, method,
                                   method.ins[2], method.ins[3])
                    ELSE ms[k]],
                 set, m + 1, name, iv)
          ELSE RegisterLoopKeepFirst(ms, set, m + 1, name, iv)

RECURSIVE RegisterLoop(_, _, _, _, _)
\* The loop of Register from index m on (rpc.go:62-109), over the mapping ms.
RegisterLoop(ms, set, m, name, iv) ==
  IF m > Len(set) THEN ms
  ELSE LET method == set[m]
           methodName == name \o "." \o method.Name
       IN IF Selected(method)
          THEN RegisterLoop(
                 [k \in DOMAIN ms \cup {methodName} |->
                    IF k = methodName
                    THEN NewMethod(methodName, iv, method,
                                   method.ins[2], method.ins[3])
                    ELSE ms[k]],
                 set, m + 1, name, iv)
          ELSE RegisterLoop(ms, set, m + 1, name, iv)

\* RegisterResult, except that the loop runs before the name is checked for
\* being exported.
RegisterResultLoopFirst(ms, i) ==
  LET it == i.type
      iv == i.id
      name == IndirectType(it).name
  IN IF name = ""
     THEN [err |-> "rpc: type name not found", methods |-> ms]
     ELSE IF ~ IsExported(name)
     THEN [err |-> "rpc: type name " \o name \o " is not exported",
           methods |-> RegisterLoop(ms, MethodSet(it), 1, name, iv)]
     ELSE [err |-> "", methods |-> RegisterLoop(ms, MethodSet(it), 1, name, iv)]

\* Register(i) on the mapping ms: the error it returns and the mapping it leaves.
RegisterResult(ms, i) ==
  LET it == i.type
      iv == i.id
      name == IndirectType(it).name
  IN IF name = ""
     THEN [err |-> "rpc: type name not found", methods |-> ms]
     ELSE IF ~ IsExported(name)
     THEN [err |-> "rpc: type name " \o name \o " is not exported", methods |-> ms]
     ELSE [err |-> "", methods |-> RegisterLoop(ms, MethodSet(it), 1, name, iv)]

\* A call of Register(i): the mapping it leaves and the record of the call.
RegisterStep(i) ==
  LET r == RegisterResult(Methods, i)
  IN /\ Methods' = r.methods
     /\ lastReg' = [called |-> TRUE, obj |-> i, err |-> r.err, before |-> Methods]

Register(i) ==
  /\ RegisterStep(i)
  /\ UNCHANGED <<regLog, conns, call, handler>>

\* Register(i), with the calls that returned nil kept in the history.
RegisterLogged(i) ==
  /\ Len(regLog) < MaxRegs
  /\ RegisterStep(i)
  /\ regLog' = IF lastReg'.err = "" THEN Append(regLog, i) ELSE regLog
  /\ UNCHANGED <<conns, call, handler>>

\* -------------------------------------------------------------- net/http
\* An HTTP request: its method, its Content-Type header and its body.
HReq(method, ctype, body) == [method |-> method, ctype |-> ctype, body |-> body]

\* What a ResponseWriter has been given: the WriteHeader calls in order (the
\* first one is the status sent), the Content-Type sent with it, the body
\* written, chunk by chunk, and whether the connection has failed.
NoResp == [wh |-> << >>, ctype |-> "", body |-> << >>, broken |-> FALSE]
Line(text) == [k |-> "line", text |-> text]
JsonLine(v) == [k |-> "json", v |-> v]
Partial == [k |-> "partial"]

\* http.Error(w, text, code): the plain-text content type and the status are
\* sent unless a header went out before; the body gets text and a newline.
HttpError(w, text, code) ==
  [wh |-> Append(w.wh, code),
   ctype |-> IF w.wh = << >> THEN "text/plain; charset=utf-8" ELSE w.ctype,
   body |-> IF w.broken THEN w.body ELSE Append(w.body, Line(text)),
   broken |-> w.broken]

\* The status a client sees.
Status(w) == IF w.wh = << >> THEN 0 ELSE w.wh[1]

\* The first JSON value of a response body, as a json.Decoder reads it.
FirstJSON(body) ==
  IF body = << >> THEN Empty
  ELSE CASE body[1].k = "line" -> ParseText(body[1].text)
         [] body[1].k = "json" -> body[1].v
         [] OTHER -> Malformed

\* Whether the bytes of a response body are exactly the text s: a line is
\* its text followed by a newline; an envelope or a cut-off envelope is never
\* equal to one of the texts of this model.
BodyIs(body, s) ==
  \/ body = << >> /\ s = ""
  \/ Len(body) = 1 /\ body[1].k = "line" /\ body[1].text \o "\n" = s

\* ---------------------------------------------------------- connections
NoMethod == [Name |-> ""]
NoRet == [out |-> "", msg |-> "", res |-> Empty]
Idle ==
  [pc |-> "idle", from |-> "", hreq |-> HReq("", "", Empty),
   looked |-> FALSE, decoded |-> FALSE, calls |-> 0,
   req |-> RequestOf("", Empty, 0), m |-> NoMethod,
   reqBody |-> NilPtr, resBody |-> Empty, ret |-> NoRet, resp |-> NoResp]
Received(from, hreq) == [Idle EXCEPT !.pc = "received", !.from = from, !.hreq = hreq]

\* -------------------------------------------------------------- Serve
\* ServeLookupResult, with the Content-Type tested before the method.
ServeLookupResultTypeFirst(k, ms) ==
  IF k.hreq.ctype # "application/json"
  THEN [k EXCEPT !.pc = "done",
                 !.resp = HttpError(k.resp, "Content-Type must be application/json", 415)]
  ELSE IF k.hreq.method # "POST"
  THEN [k EXCEPT !.pc = "done",
                 !.resp = HttpError(k.resp, "Method not allowed", 405)]
  ELSE LET d == DecodeRequest(k.hreq.body)
       IN IF ~ d.ok
          THEN [k EXCEPT !.pc = "done", !.decoded = TRUE,
                         !.resp = HttpError(k.resp, "Bad request", 400)]
          ELSE IF d.req.ServiceMethod \notin DOMAIN ms
          THEN [k EXCEPT !.pc = "done", !.decoded = TRUE, !.looked = TRUE,
                         !.req = d.req,
                         !.resp = HttpError(k.resp, "Bad request", 400)]
          ELSE [k EXCEPT !.pc = "found", !.decoded = TRUE, !.looked = TRUE,
                         !.req = d.req, !.m = ms[d.req.ServiceMethod]]

\* ServeLookupResult, with an unknown method answered 404.
ServeLookupResultNotFound(k, ms) ==
  IF k.hreq.method # "POST"
  THEN [k EXCEPT !.pc = "done",
                 !.resp = HttpError(k.resp, "Method not allowed", 405)]
  ELSE IF k.hreq.ctype # "application/json"
  THEN [k EXCEPT !.pc = "done",
                 !.resp = HttpError(k.resp, "Content-Type must be application/json", 415)]
  ELSE LET d == DecodeRequest(k.hreq.body)
       IN IF ~ d.ok
          THEN [k EXCEPT !.pc = "done", !.decoded = TRUE,
                         !.resp = HttpError(k.resp, "Bad request", 400)]
          ELSE IF d.req.ServiceMethod \notin DOMAIN ms
          THEN [k EXCEPT !.pc = "done", !.decoded = TRUE, !.looked = TRUE,
                         !.req = d.req,
                         !.resp = HttpError(k.resp, "Not found", 404)]
          ELSE [k EXCEPT !.pc = "found", !.decoded = TRUE, !.looked = TRUE,
                         !.req = d.req, !.m = ms[d.req.ServiceMethod]]

\* The handler up to the registry lookup (rpc.go:165-187).
ServeLookupResult(k, ms) ==
  IF k.hreq.method # "POST"
  THEN [k EXCEPT !.pc = "done",
                 !.resp = HttpError(k.resp, "Method not allowed", 405)]
  ELSE IF k.hreq.ctype # "application/json"
  THEN [k EXCEPT !.pc = "done",
                 !.resp = HttpError(k.resp, "Content-Type must be application/json", 415)]
  ELSE LET d == DecodeRequest(k.hreq.body)
       IN IF ~ d.ok
          THEN [k EXCEPT !.pc = "done", !.decoded = TRUE,
                         !.resp = HttpError(k.resp, "Bad request", 400)]
          ELSE IF d.req.ServiceMethod \notin DOMAIN ms
          THEN [k EXCEPT !.pc = "done", !.decoded = TRUE, !.looked = TRUE,
                         !.req = d.req,
                         !.resp = HttpError(k.resp, "Bad request", 400)]
          ELSE [k EXCEPT !.pc = "found", !.decoded = TRUE, !.looked = TRUE,
                         !.req = d.req, !.m = ms[d.req.ServiceMethod]]

\* ServeInvokeResult, with the procedure's error answered 400.
ServeInvokeResultBadRequest(k) ==
  LET u == UnmarshalPtr(k.req.Body, k.m.RequestType.elem)
      resBody == Zero(k.m.ResponseType.elem)
      callRes == ProcCall(k.m.Method.proc, u.p, resBody)
  IN IF ~ u.ok
     THEN [k EXCEPT !.pc = "done",
                    !.resp = HttpError(k.resp, "Bad request", 400)]
     ELSE IF callRes.out = "panic"
     THEN [k EXCEPT !.pc = "aborted", !.reqBody = u.p, !.resBody = resBody,
                    !.calls = k.calls + 1, !.ret = callRes]
     ELSE IF callRes.out = "err"
     THEN [k EXCEPT !.pc = "done", !.reqBody = u.p, !.resBody = callRes.res,
                    !.calls = k.calls + 1, !.ret = callRes,
                    !.resp = HttpError(k.resp, "Bad request", 400)]
     ELSE [k EXCEPT !.pc = "invoked", !.reqBody = u.p, !.resBody = callRes.res,
                    !.calls = k.calls + 1, !.ret = callRes]

\* The handler from decoding the request body to the procedure's return
\* (rpc.go:189-209).  A panic of the procedure ends the handler: net/http
\* recovers it and drops the connection without a response.
ServeInvokeResult(k) ==
  LET u == UnmarshalPtr(k.req.Body, k.m.RequestType.elem)
      resBody == Zero(k.m.ResponseType.elem)
      callRes == ProcCall(k.m.Method.proc, u.p, resBody)
  IN IF ~ u.ok
     THEN [k EXCEPT !.pc = "done",
                    !.resp = HttpError(k.resp, "Bad request", 400)]
     ELSE IF callRes.out = "panic"
     THEN [k EXCEPT !.pc = "aborted", !.reqBody = u.p, !.resBody = resBody,
                    !.calls = k.calls + 1, !.ret = callRes]
     ELSE IF callRes.out = "err"
     THEN [k EXCEPT !.pc = "done", !.reqBody = u.p, !.resBody = callRes.res,
                    !.calls = k.calls + 1, !.ret = callRes,
                    !.resp = HttpError(k.resp, callRes.msg, 500)]
     ELSE [k EXCEPT !.pc = "invoked", !.reqBody = u.p, !.resBody = callRes.res,
                    !.calls = k.calls + 1, !.ret = callRes]

\* ServeWriteResult, with the Body of the Response left out.
ServeWriteResultNoBody(k, wrote) ==
  LET res == ResponseOf(k.req.ServiceMethod, Empty, k.req.Seq, "")
  IN [k EXCEPT !.pc = "done",
               !.resp = [k.resp EXCEPT !.wh = Append(@, 200),
                                       !.ctype = "application/json",
                                       !.body = Append(@, JsonLine(MarshalResponse(res)))]]

\* ServeWriteResult, with the Seq of the Response left at its zero value.
ServeWriteResultNoSeq(k, wrote) ==
  LET e == Marshal(Ref(k.resBody))
      res == ResponseOf(k.req.ServiceMethod, e.data, 0, "")
      sent == [k.resp EXCEPT !.wh = Append(@, 200), !.ctype = "application/json"]
  IN IF ~ e.ok
     THEN [k EXCEPT !.pc = "done",
                    !.resp = HttpError(k.resp, "json: unsupported type", 500)]
     ELSE IF wrote
     THEN [k EXCEPT !.pc = "done",
                    !.resp = [sent EXCEPT !.body = Append(@, JsonLine(MarshalResponse(res)))]]
     ELSE [k EXCEPT !.pc = "done",
                    !.resp = HttpError([sent EXCEPT !.body = Append(@, Partial),
                                                    !.broken = TRUE],
                                       "write: broken pipe", 500)]

\* The handler from encoding the response body on (rpc.go:211-231); wrote
\* tells whether the connection took the envelope.
ServeWriteResult(k, wrote) ==
  LET e == Marshal(Ref(k.resBody))
      res == ResponseOf(k.req.ServiceMethod, e.data, k.req.Seq, "")
      sent == [k.resp EXCEPT !.wh = Append(@, 200), !.ctype = "application/json"]
  IN IF ~ e.ok
     THEN [k EXCEPT !.pc = "done",
                    !.resp = HttpError(k.resp, "json: unsupported type", 500)]
     ELSE IF wrote
     THEN [k EXCEPT !.pc = "done",
                    !.resp = [sent EXCEPT !.body = Append(@, JsonLine(MarshalResponse(res)))]]
     ELSE [k EXCEPT !.pc = "done",
                    !.resp = HttpError([sent EXCEPT !.body = Append(@, Partial),
                                                    !.broken = TRUE],
                                       "write: broken pipe", 500)]

\* Serve(): the handler is a closure over the Service s; nothing is copied.
NoHandler == [made |-> FALSE, atServe |-> << >>]
Serve ==
  /\ ~ handler.made
  /\ handler' = [made |-> TRUE, atServe |-> Methods]
  /\ UNCHANGED <<Methods, lastReg, regLog, conns, call>>

\* HandlerMethods, had Serve() copied the mapping into the handler.
HandlerMethodsCopied(h, ms) == h.atServe

\* s.Methods as the handler h reads it at rpc.go:183, ms being the mapping of
\* the Service at that moment.
HandlerMethods(h, ms) == ms

\* ServeLookup, had the lookup taken the descriptor out of the mapping.
ServeLookupTaking(c) ==
  /\ conns[c].pc = "received"
  /\ LET k == ServeLookupResult(conns[c], HandlerMethods(handler, Methods))
     IN /\ conns' = [conns EXCEPT ![c] = k]
        /\ Methods' = IF k.pc = "found"
                      THEN [n \in DOMAIN Methods \ {k.m.Name} |-> Methods[n]]
                      ELSE Methods
  /\ UNCHANGED <<lastReg, regLog, call, handler>>

ServeLookup(c) ==
  /\ conns[c].pc = "received"
  /\ conns' = [conns EXCEPT ![c] =
                 ServeLookupResult(conns[c], HandlerMethods(handler, Methods))]
  /\ UNCHANGED <<Methods, lastReg, regLog, call, handler>>

ServeInvoke(c) ==
  /\ conns[c].pc = "found"
  /\ conns' = [conns EXCEPT ![c] = ServeInvokeResult(conns[c])]
  /\ UNCHANGED <<Methods, lastReg, regLog, call, handler>>

\* ServeWrite, had the handlers kept the response instance in one place
\* they share: the envelope carries what the other handler's procedure left.
ServeWriteShared(c) ==
  /\ conns[c].pc = "invoked"
  /\ \E wrote \in BOOLEAN :
       LET others == {d \in Conns \ {c} : conns[d].pc = "invoked"}
           shared == IF others = {} THEN conns[c].resBody
                     ELSE conns[CHOOSE d \in others : TRUE].resBody
       IN conns' = [conns EXCEPT ![c] =
                      ServeWriteResult([conns[c] EXCEPT !.resBody = shared], wrote)]
  /\ UNCHANGED <<Methods, lastReg, regLog, call, handler>>

ServeWrite(c) ==
  /\ conns[c].pc = "invoked"
  /\ \E wrote \in BOOLEAN :
       conns' = [conns EXCEPT ![c] = ServeWriteResult(conns[c], wrote)]
  /\ UNCHANGED <<Methods, lastReg, regLog, call, handler>>

\* ------------------------------------------- requests of other HTTP clients
Body(a, b) == JObj([A |-> JNum(a), B |-> JNum(b)])
Env(sm, body, seq) ==
  JObj([ServiceMethod |-> JStr(sm), Body |-> body, Seq |-> JNum(seq)])
JSONType == "application/json"

RawRequests ==
  {HReq("POST", JSONType, Env(sm, Body(MaxInt, 1), seq)) :
     sm \in {"Math.Add", "Math.Subtract"}, seq \in 0..MaxSeq}
  \cup
  {HReq("GET", JSONType, Env("Math.Add", Body(1, 1), 0)),
   HReq("GET", "text/plain", Env("Math.Add", Body(1, 1), 0)),
   HReq("POST", "text/plain", Env("Math.Add", Body(1, 1), 0)),
   HReq("POST", "application/json; charset=utf-8", Env("Math.Add", Body(1, 1), 0)),
   HReq("POST", JSONType, Malformed),
   HReq("POST", JSONType, Env("Math.Add", Body(1, 1), -1)),
   HReq("POST", JSONType, JObj([ServiceMethod |-> JStr("Math.Add"), Seq |-> JNum(0)])),
   HReq("POST", JSONType, Env("Math.Add", JNull, 0)),
   HReq("POST", JSONType, Env("Math.Add", JObj([A |-> JStr("x")]), 0)),
   HReq("POST", JSONType, Env("Math.Div", Body(1, 0), MaxSeq)),
   HReq("POST", JSONType, Env("Math.Add", Body(0, 0), 0))}

RawSend(c, h) ==
  /\ handler.made
  /\ conns[c].pc = "idle"
  /\ conns' = [conns EXCEPT ![c] = Received("raw", h)]
  /\ UNCHANGED <<Methods, lastReg, regLog, call, handler>>

\* The other client has read its response (or seen its connection dropped).
RawClose(c) ==
  /\ conns[c].pc \in {"done", "aborted"}
  /\ conns[c].from = "raw"
  /\ conns' = [conns EXCEPT ![c] = Idle]
  /\ UNCHANGED <<Methods, lastReg, regLog, call, handler>>

\* --------------------------------------------------------------- Call
\* An error Call returns: the format's fixed text and what it is filled with.
NoErr == [prefix |-> "", detail |-> ""]
Errorf(prefix, detail) == [prefix |-> prefix, detail |-> detail]
\* The message of an error of encoding/json or of the transport.
JsonError == "json: error"
TransportError == "EOF"

NoCall ==
  [pc |-> "idle", method |-> "", reqBody |-> NilPtr, resInit |-> Empty,
   resBody |-> Empty, err |-> NoErr, conn |-> 0, posted |-> FALSE, srv |-> Idle,
   closed |-> FALSE]

\* What a caller may pass: a method name, a request value and the value the
\* response pointer refers to before the call.
CallInputs ==
  {<<m, Ref([A |-> a, B |-> b]), [X |-> x]>> :
     m \in {"Math.Add", "Math.Div", "Mixed.Raw"},
     a \in 0..MaxInt, b \in 0..MaxInt, x \in {0, MaxInt}}
  \cup
  {<<"Math.Add", NilPtr, [X |-> 0]>>,
   <<"Math.Add", Chan, [X |-> 0]>>,
   <<"Math.Abs", Ref([A |-> 1, B |-> 0]), [X |-> 0]>>,
   <<"Math.Subtract", Ref([A |-> 1, B |-> 1]), [X |-> MaxInt]>>,
   <<"Mixed.Prim", Ref([int |-> 1]), [int |-> 0]>>,
   <<"Mixed.Unexp", Ref([V |-> 1]), [X |-> 0]>>,
   <<"Mixed.UnexpRes", Ref([A |-> 1, B |-> 0]), [V |-> 0]>>}

\* CallRequest, with the ok of the lookup ignored: a missing key yields the
\* zero Method, whose Name is "".
CallRequestIgnoreOk(ms, method, reqBody) ==
  LET m == IF method \in DOMAIN ms THEN ms[method] ELSE NoMethod
      enc == Marshal(reqBody)
      req == RequestOf(m.Name, enc.data, 0)
  IN IF ~ enc.ok
     THEN [err |-> Errorf("rpc: error encoding request: ", JsonError),
           hreq |-> HReq("", "", Empty)]
     ELSE [err |-> NoErr,
           hreq |-> HReq("POST", "application/json", MarshalRequest(req))]

\* CallRequest, with the request sent without a Content-Type.
CallRequestNoContentType(ms, method, reqBody) ==
  IF method \notin DOMAIN ms
  THEN [err |-> Errorf("rpc: can't find method ", method), hreq |-> HReq("", "", Empty)]
  ELSE LET enc == Marshal(reqBody)
           req == RequestOf(ms[method].Name, enc.data, 0)
       IN IF ~ enc.ok
          THEN [err |-> Errorf("rpc: error encoding request: ", JsonError),
                hreq |-> HReq("", "", Empty)]
          ELSE [err |-> NoErr, hreq |-> HReq("POST", "", MarshalRequest(req))]

\* Call up to the POST (rpc.go:114-134): the error it returns before sending
\* anything, or the HTTP request it sends.
CallRequest(ms, method, reqBody) ==
  IF method \notin DOMAIN ms
  THEN [err |-> Errorf("rpc: can't find method ", method), hreq |-> HReq("", "", Empty)]
  ELSE LET m == ms[method]
           enc == Marshal(reqBody)
           req == RequestOf(m.Name, enc.data, 0)
       IN IF ~ enc.ok
          THEN [err |-> Errorf("rpc: error encoding request: ", JsonError),
                hreq |-> HReq("", "", Empty)]
          ELSE [err |-> NoErr,
                hreq |-> HReq("POST", "application/json", MarshalRequest(req))]

\* The type the response pointer of a call refers to.
TypeOfValue(v) ==
  IF "int" \in DOMAIN v THEN IntT
  ELSE IF "V" \in DOMAIN v THEN secretT
  ELSE IF "X" \in DOMAIN v THEN AddResponseT
  ELSE AddRequestT

\* CallDecode, without the decoding of the Body into the response value.
CallDecodeNoBody(body, cur) ==
  LET d == DecodeResponse(FirstJSON(body))
  IN IF ~ d.ok
     THEN [err |-> Errorf("rpc: error reading response body: ", JsonError), v |-> cur,
           closed |-> FALSE]
     ELSE IF d.res.Error # ""
     THEN [err |-> Errorf("rpc: server: ", d.res.Error), v |-> cur, closed |-> TRUE]
     ELSE [err |-> NoErr, v |-> cur, closed |-> TRUE]

\* Call after the POST has returned a response with body `body`
\* (rpc.go:142-160): the error it returns, the value left behind the
\* response pointer, whose value was cur, and whether resp.Body was closed:
\* the deferred Close is registered at rpc.go:148, after the return of a
\* failed envelope decode.
CallDecode(body, cur) ==
  LET d == DecodeResponse(FirstJSON(body))
      res == d.res
      u == UnmarshalInto(res.Body, TypeOfValue(cur), cur)
  IN IF ~ d.ok
     THEN [err |-> Errorf("rpc: error reading response body: ", JsonError), v |-> cur,
           closed |-> FALSE]
     ELSE IF res.Error # ""
     THEN [err |-> Errorf("rpc: server: ", res.Error), v |-> cur, closed |-> TRUE]
     ELSE IF ~ u.ok
     THEN [err |-> Errorf("rpc: ", JsonError), v |-> u.v, closed |-> TRUE]
     ELSE [err |-> NoErr, v |-> u.v, closed |-> TRUE]

\* Call from its start to the POST: it returns at once with an error, or the
\* transport fails, or the request is on a connection.
CallStart(method, reqBody, resInit) ==
  /\ call.pc \in {"idle", "returned"}
  /\ LET r == CallRequest(Methods, method, reqBody)
         begun == [NoCall EXCEPT !.method = method, !.reqBody = reqBody,
                                 !.resInit = resInit, !.resBody = resInit]
     IN IF r.err # NoErr
        THEN /\ call' = [begun EXCEPT !.pc = "returned", !.err = r.err]
             /\ UNCHANGED conns
        ELSE \/ /\ call' = [begun EXCEPT !.pc = "returned", !.posted = TRUE,
                              !.err = Errorf("rpc: error sending request: ", TransportError)]
                /\ UNCHANGED conns
             \/ \E c \in Conns :
                  /\ handler.made
                  /\ conns[c].pc = "idle"
                  /\ conns' = [conns EXCEPT ![c] = Received("call", r.hreq)]
                  /\ call' = [begun EXCEPT !.pc = "waiting", !.posted = TRUE, !.conn = c]
  /\ UNCHANGED <<Methods, lastReg, regLog, handler>>

\* Call from the return of the POST to its own return.
CallReturn ==
  /\ call.pc = "waiting"
  /\ conns[call.conn].pc \in {"done", "aborted"}
  /\ LET k == conns[call.conn]
         r == CallDecode(k.resp.body, call.resBody)
     IN IF k.pc = "aborted"
        THEN call' = [call EXCEPT !.pc = "returned", !.srv = k,
                        !.err = Errorf("rpc: error sending request: ", TransportError)]
        ELSE call' = [call EXCEPT !.pc = "returned", !.srv = k,
                        !.err = r.err, !.resBody = r.v, !.closed = r.closed]
  /\ conns' = [conns EXCEPT ![call.conn] = Idle]
  /\ UNCHANGED <<Methods, lastReg, regLog, handler>>

\* The objects a serving process registers.
ServedObjs == {mathA, mixed}

RECURSIVE isExportedOrBuiltinType(_)
\* Is this type exported or a builtin?  (rpc.go:234-242; Register does not
\* call it.)
isExportedOrBuiltinType(t) ==
  IF t.kind = "ptr" THEN isExportedOrBuiltinType(t.elem)
  ELSE IsExported(t.name) \/ t.pkgPath = ""

\* New(): an empty mapping; no handler yet, no request in flight, no call made.
Init ==
  /\ Methods = << >>
  /\ lastReg = [called |-> FALSE, obj |-> anon, err |-> "", before |-> << >>]
  /\ regLog = << >>
  /\ conns = [c \in Conns |-> Idle]
  /\ call = NoCall
  /\ handler = NoHandler

NextReg == \E i \in Objs : RegisterLogged(i)

\* Registration alone, with its history.
SpecReg == Init /\ [][NextReg]_vars

Next ==
  \/ \E i \in ServedObjs : Register(i)
  \/ Serve
  \/ \E c \in Conns : \E h \in RawRequests : RawSend(c, h)
  \/ \E c \in Conns : ServeLookup(c)
  \/ \E c \in Conns : ServeInvoke(c)
  \/ \E c \in Conns : ServeWrite(c)
  \/ \E c \in Conns : RawClose(c)

\* Registration and the dispatcher, serving the requests of HTTP clients.
Spec == Init /\ [][Next]_vars

NextCall ==
  \/ \E i \in ServedObjs : Register(i)
  \/ Serve
  \/ \E in \in CallInputs : CallStart(in[1], in[2], in[3])
  \/ \E c \in Conns : ServeLookup(c)
  \/ \E c \in Conns : ServeInvoke(c)
  \/ \E c \in Conns : ServeWrite(c)
  \/ CallReturn

\* Registration, the dispatcher and a client calling it through Call.
SpecCall == Init /\ [][NextCall]_vars

\* The server set up as in the test (rpc_test.go:37-41): every Register
\* returns before Serve() hands out the handler, then requests arrive on
\* both connections and their handlers interleave.
RegisterBeforeServe(i) == ~ handler.made /\ Register(i)
NextConc ==
  \/ \E i \in ServedObjs : RegisterBeforeServe(i)
  \/ Serve
  \/ \E c \in Conns : \E h \in RawRequests : RawSend(c, h)
  \/ \E c \in Conns : ServeLookup(c)
  \/ \E c \in Conns : ServeInvoke(c)
  \/ \E c \in Conns : ServeWrite(c)
  \/ \E c \in Conns : RawClose(c)
SpecConc == Init /\ [][NextConc]_vars

\* =================================================================== claims

\* C1: a Call of a registered method with a non-nil request value, whose
\* request reached the dispatcher and whose response came back whole, returns
\* no error unless the procedure returned one, and leaves behind the response
\* pointer the value the procedure left in its response instance; for Math.Add
\* that value has X = A + B.
C1_RoundTrip ==
  ( /\ call.pc = "returned"
    /\ call.srv.pc = "done"
    /\ ~ call.srv.resp.broken
    /\ ~ call.reqBody.nil
    /\ call.srv.ret.out # "err" ) =>
      /\ call.err = NoErr
      /\ call.srv.calls = 1
      /\ call.resBody = call.srv.resBody
      /\ call.method = "Math.Add" =>
           call.resBody = [X |-> call.reqBody.v.A + call.reqBody.v.B]

\* Math.Add of the largest operands has overwritten a non-zero response value.
C1_Witness ==
  /\ call.pc = "returned"
  /\ call.method = "Math.Add"
  /\ call.reqBody = Ref([A |-> MaxInt, B |-> MaxInt])
  /\ call.resInit = [X |-> MaxInt]
  /\ call.err = NoErr
  /\ call.resBody = [X |-> 2 * MaxInt]

\* C2: when the procedure a Call reached returned an error with message M,
\* Call returns the remote error "rpc: server: M" and the response value is
\* as it was before the call.
C2_RemoteErrorReachesCaller ==
  ( /\ call.pc = "returned"
    /\ call.srv.pc = "done"
    /\ call.srv.ret.out = "err" ) =>
      /\ call.err = Errorf("rpc: server: ", call.srv.ret.msg)
      /\ call.resBody = call.resInit

\* A request whose procedure returned a non-nil error has been answered.
ProcedureFailed(k) == k.pc = "done" /\ k.ret.out = "err"

\* C3 (as stated): a procedure's error is answered 500 with a body equal to
\* the error's message, and no Response envelope.
C3_ErrorBodyIsMessage ==
  \A c \in Conns :
    ProcedureFailed(conns[c]) =>
      /\ conns[c].resp.wh = <<500>>
      /\ BodyIs(conns[c].resp.body, conns[c].ret.msg)

\* C3 (amended): a procedure's error is answered 500 with a body equal to the
\* error's message followed by a newline, as plain text, and no Response
\* envelope.
C3_ErrorBodyIsMessageLine ==
  \A c \in Conns :
    ProcedureFailed(conns[c]) =>
      /\ conns[c].resp.wh = <<500>>
      /\ conns[c].resp.ctype = "text/plain; charset=utf-8"
      /\ BodyIs(conns[c].resp.body, conns[c].ret.msg \o "\n")
      /\ \A j \in 1..Len(conns[c].resp.body) : conns[c].resp.body[j].k = "line"

\* Math.Div by zero has been answered.
C3_Witness ==
  \E c \in Conns :
    /\ ProcedureFailed(conns[c])
    /\ conns[c].m.Name = "Math.Div"
    /\ conns[c].ret.msg = DivisionByZero
    /\ conns[c].calls = 1

\* C4: a request answered 200 gets a Response envelope whose Seq and
\* ServiceMethod are those of the Request envelope it sent, whatever the Seq;
\* unless the connection failed, the body is that one envelope.
C4_SeqAndMethodEchoed ==
  \A c \in Conns :
    (conns[c].pc = "done" /\ Status(conns[c].resp) = 200) =>
      LET sent == DecodeRequest(conns[c].hreq.body).req
          body == conns[c].resp.body
      IN /\ ~ conns[c].resp.broken =>
              Len(body) = 1 /\ body[1].k = "json"
         /\ \A j \in 1..Len(body) :
              body[j].k = "json" =>
                LET got == DecodeResponse(body[j].v)
                IN /\ got.ok
                   /\ got.res.Seq = sent.Seq
                   /\ got.res.ServiceMethod = sent.ServiceMethod
                   /\ got.res.Error = ""

\* A request with the largest, non-zero, Seq has been answered 200.
C4_Witness ==
  \E c \in Conns :
    /\ conns[c].pc = "done"
    /\ Status(conns[c].resp) = 200
    /\ ~ conns[c].resp.broken
    /\ DecodeRequest(conns[c].hreq.body).req.Seq = MaxSeq
    /\ MaxSeq > 0
    /\ DecodeResponse(conns[c].resp.body[1].v).res.Seq = MaxSeq

\* C5: a request that is not a POST is answered 405, a POST whose
\* Content-Type is not exactly application/json is answered 415, and for
\* neither is the registry looked up, the body decoded or a procedure invoked.
C5_MethodAndTypeRejected ==
  \A c \in Conns :
    LET k == conns[c]
        untouched == ~ k.looked /\ ~ k.decoded /\ k.calls = 0 /\ k.m = NoMethod
    IN /\ (k.pc # "idle" /\ k.hreq.method # "POST") =>
            /\ k.pc \in {"received", "done"}
            /\ untouched
            /\ k.pc = "done" => k.resp.wh = <<405>>
       /\ (k.pc # "idle" /\ k.hreq.method = "POST"
             /\ k.hreq.ctype # "application/json") =>
            /\ k.pc \in {"received", "done"}
            /\ untouched
            /\ k.pc = "done" => k.resp.wh = <<415>>

\* A GET with the wrong Content-Type got 405 and a POST with a charset
\* parameter got 415.
C5_Witness ==
  \E c, d \in Conns :
    /\ conns[c].pc = "done"
    /\ conns[c].hreq.method = "GET"
    /\ conns[c].hreq.ctype = "text/plain"
    /\ Status(conns[c].resp) = 405
    /\ conns[d].pc = "done"
    /\ conns[d].hreq.method = "POST"
    /\ conns[d].hreq.ctype = "application/json; charset=utf-8"
    /\ Status(conns[d].resp) = 415

\* A POST with the JSON content type whose body decodes as a Request.
WellFormed(h) ==
  h.method = "POST" /\ h.ctype = "application/json" /\ DecodeRequest(h.body).ok

\* C6: when the handler takes up a well-formed request whose ServiceMethod
\* is not a key of the registry, it answers 400 and ends without having
\* invoked a procedure.
C6_UnknownMethodRejected ==
  [][ \A c \in Conns :
        ( /\ conns[c].pc = "received"
          /\ conns'[c] # conns[c]
          /\ WellFormed(conns[c].hreq)
          /\ DecodeRequest(conns[c].hreq.body).req.ServiceMethod
               \notin DOMAIN Methods ) =>
            /\ conns'[c].pc = "done"
            /\ conns'[c].resp.wh = <<400>>
            /\ conns'[c].calls = 0 ]_vars

\* Math.Subtract has been answered 400 by a registry that holds Math.Add.
C6_Witness ==
  \E c \in Conns :
    /\ conns[c].pc = "done"
    /\ conns[c].looked
    /\ conns[c].req.ServiceMethod = "Math.Subtract"
    /\ Status(conns[c].resp) = 400
    /\ "Math.Add" \in DOMAIN Methods

\* C7: a Call whose method name is not a key of the registry returns the
\* can't-find-method error, sends nothing and leaves the response value alone.
C7_UnknownMethodNotSent ==
  [][ ( /\ call.pc # "waiting"
        /\ call' # call
        /\ call'.method \notin DOMAIN Methods ) =>
          /\ call'.pc = "returned"
          /\ call'.err = Errorf("rpc: can't find method ", call'.method)
          /\ ~ call'.posted
          /\ conns' = conns
          /\ call'.resBody = call'.resInit ]_vars

\* Math.Subtract was called on a registry that holds Math.Add.
C7_Witness ==
  /\ call.pc = "returned"
  /\ call.method = "Math.Subtract"
  /\ call.err = Errorf("rpc: can't find method ", "Math.Subtract")
  /\ ~ call.posted
  /\ call.resBody = [X |-> MaxInt]
  /\ "Math.Add" \in DOMAIN Methods

\* The five conditions of the calling convention, on a declared method.
FiveConditions(d) ==
  /\ IsExported(d.Name)
  /\ Len(d.params) = 2
  /\ \A p \in 1..2 : d.params[p].kind = "ptr" /\ d.params[p].elem.kind = "struct"
  /\ \A p \in 1..2 : isExportedOrBuiltinType(d.params[p])
  /\ d.outs = <<typeOfError>>

\* C8: after a successful Register(obj) on a type named T, "T.M" is a key of
\* the registry iff method M of obj meets all five conditions of the calling
\* convention, and Register of an exported named type returns no error.
C8_KeysAreExactlyTheConformingMethods ==
  lastReg.called =>
    LET t == lastReg.obj.type
        T == IndirectType(t)
        ds == DeclaredMethods(T)
    IN /\ (T.name # "" /\ IsExported(T.name)) => lastReg.err = ""
       /\ lastReg.err = "" =>
            \A k \in 1..Len(ds) :
              (t.kind = "ptr" \/ ds[k].recv = "val") =>
                ((T.name \o "." \o ds[k].Name) \in DOMAIN Methods
                   <=> FiveConditions(ds[k]))

\* C9: Register returns the type-name-not-found error for an unnamed type and
\* the not-exported error for an unexported name, and in both cases leaves the
\* mapping exactly as it was before the call.
C9_FailedRegisterKeepsRegistry ==
  lastReg.called =>
    LET name == IndirectType(lastReg.obj.type).name
    IN /\ name = "" =>
            /\ lastReg.err = "rpc: type name not found"
            /\ Methods = lastReg.before
       /\ (name # "" /\ ~ IsExported(name)) =>
            /\ lastReg.err = "rpc: type name " \o name \o " is not exported"
            /\ Methods = lastReg.before

\* Both failures have happened on a registry that already holds methods.
C9_Witness ==
  /\ lastReg.called
  /\ lastReg.obj \in {calc, anon, mathPP}
  /\ lastReg.err # ""
  /\ "Math.Add" \in DOMAIN Methods

\* C10: every key maps to the descriptor written by the latest successful
\* Register that selected it, and a key no later Register selected is still
\* there as its own Register wrote it.
C10_LatestRegistrationWins ==
  LET Fresh(o) == RegisterResult(<< >>, o).methods
      Keys == DOMAIN Methods \cup UNION {DOMAIN Fresh(o) : o \in Objs}
  IN \A k \in Keys :
       LET writers == {j \in 1..Len(regLog) : k \in DOMAIN Fresh(regLog[j])}
       IN IF writers = {} THEN k \notin DOMAIN Methods
          ELSE LET last == CHOOSE j \in writers : \A j2 \in writers : j2 <= j
               IN /\ k \in DOMAIN Methods
                  /\ Methods[k] = Fresh(regLog[last])[k]
                  /\ Methods[k].Receiver = regLog[last].id

\* A second Register of Math by value has overwritten the value-receiver
\* method only, and the keys of Mixed, registered in between, are still there.
C10_Witness ==
  /\ regLog = <<mathA, mixed, mathV>>
  /\ Methods["Math.Abs"].Receiver = 3
  /\ Methods["Math.Add"].Receiver = 1
  /\ Methods["Mixed.Ok"].Receiver = 4

\* C11: the handler reads the mapping as it is when the request is looked
\* up, not as it was when Serve() returned: a well-formed request whose name
\* is a key by then is resolved to the descriptor of that key (for a method
\* the last successful Register selected, the one that Register wrote), and
\* one whose name is not yet a key is answered 400.
C11_HandlerSeesLaterRegister ==
  [][ \A c \in Conns :
        ( /\ conns[c].pc = "received"
          /\ conns'[c] # conns[c]
          /\ WellFormed(conns[c].hreq) ) =>
            LET name == DecodeRequest(conns[c].hreq.body).req.ServiceMethod
                written == RegisterResult(<< >>, lastReg.obj).methods
            IN /\ name \in DOMAIN Methods =>
                    /\ conns'[c].pc = "found"
                    /\ conns'[c].m = Methods[name]
               /\ ( /\ lastReg.called
                    /\ lastReg.err = ""
                    /\ name \in DOMAIN written ) =>
                      /\ conns'[c].pc = "found"
                      /\ conns'[c].m = written[name]
               /\ name \notin DOMAIN Methods =>
                    /\ conns'[c].pc = "done"
                    /\ conns'[c].resp.wh = <<400>> ]_vars

\* The handler was made on an empty mapping; Math.Add was answered 400 on one
\* connection before Register(&Math{}) and 200 on the other after it.
C11_Witness ==
  /\ handler.made
  /\ handler.atServe = << >>
  /\ \E c, d \in Conns :
       /\ conns[c].pc = "done"
       /\ conns[c].req.ServiceMethod = "Math.Add"
       /\ conns[c].resp.wh = <<400>>
       /\ conns[d].pc = "done"
       /\ conns[d].req.ServiceMethod = "Math.Add"
       /\ conns[d].resp.wh = <<200>>
       /\ conns[d].m.Receiver = 1

\* Whether body is the serialization of a value of shape t.
ValidPayload(body, t) ==
  /\ body.k \notin {"empty", "bad", "null"}
  /\ UnmarshalInto(body, t, Zero(t)).ok

\* C12: every Response envelope on a connection decodes as a Response, and
\* exactly one of these holds for it: its Body is a serialized value of the
\* method's response shape, or its Error is non-empty.
C12_BodyXorError ==
  \A c \in Conns : \A i \in 1..Len(conns[c].resp.body) :
    conns[c].resp.body[i].k = "json" =>
      LET d == DecodeResponse(conns[c].resp.body[i].v)
      IN /\ d.ok
         /\ ValidPayload(d.res.Body, conns[c].m.ResponseType.elem)
              # (d.res.Error # "")

\* A Math.Add request was answered with an envelope.
C12_Witness ==
  \E c \in Conns :
    /\ conns[c].pc = "done"
    /\ conns[c].m # NoMethod
    /\ conns[c].m.Name = "Math.Add"
    /\ Len(conns[c].resp.body) = 1
    /\ conns[c].resp.body[1].k = "json"
    /\ DecodeResponse(conns[c].resp.body[1].v).res.Body = JObj([X |-> JNum(MaxInt + 1)])

\* The handler called http.Error for the request of connection record k.
Rejected(k) == \E i \in 1..Len(k.resp.wh) : k.resp.wh[i] >= 400

\* C13: a request the handler has finished with has exactly one status out of
\* 200, 400, 405, 415, 500, written once; a rejected request has no status
\* 200, no JSON content type and no envelope bytes; the procedure was invoked
\* at most once.
C13_OneStatusNoPartialSuccess ==
  \A c \in Conns :
    conns[c].pc = "done" =>
      /\ Len(conns[c].resp.wh) = 1
      /\ conns[c].resp.wh[1] \in {200, 400, 405, 415, 500}
      /\ Rejected(conns[c]) =>
           /\ \A i \in 1..Len(conns[c].resp.wh) : conns[c].resp.wh[i] # 200
           /\ conns[c].resp.ctype # "application/json"
           /\ \A i \in 1..Len(conns[c].resp.body) :
                conns[c].resp.body[i].k \notin {"json", "partial"}
      /\ conns[c].calls <= 1

\* C14: a procedure that was invoked got a non-nil request instance holding
\* the decoded Body, whatever Body passed the decode step (null included);
\* a found method whose Body is absent or does not decode is answered 400
\* without an invocation.
C14_InvokedWithFreshNonNilRequest ==
  \A c \in Conns :
    LET k == conns[c]
    IN /\ k.calls > 0 =>
            /\ ~ k.reqBody.nil
            /\ k.reqBody.v = UnmarshalInto(k.req.Body, k.m.RequestType.elem,
                                           Zero(k.m.RequestType.elem)).v
       /\ ( /\ k.m # NoMethod
            /\ k.pc \notin {"received", "found"}
            /\ ~ UnmarshalPtr(k.req.Body, k.m.RequestType.elem).ok ) =>
              /\ k.calls = 0
              /\ k.resp.wh = <<400>>

\* The handler run on request h alone against the mapping ms, from arrival to
\* its end; wrote tells whether the connection took the envelope.
HandledAlone(from, h, ms, wrote) ==
  LET looked == ServeLookupResult(Received(from, h), ms)
      invoked == IF looked.pc = "found" THEN ServeInvokeResult(looked) ELSE looked
  IN IF invoked.pc = "invoked" THEN ServeWriteResult(invoked, wrote) ELSE invoked

\* C15: with registration finished before the handler serves, a request the
\* handler has finished with, however its steps interleaved with those of the
\* other connection, has the status, the response bytes and the request and
\* response instances of the same request handled alone.
C15_InterleavingIsInvisible ==
  \A c \in Conns :
    conns[c].pc \in {"done", "aborted"} =>
      \E wrote \in BOOLEAN :
        conns[c] = HandledAlone(conns[c].from, conns[c].hreq, Methods, wrote)

\* Two Math.Add requests with different arguments are on the two
\* connections, one answered and one invoked and not yet written, each with
\* its own sum.
C15_Witness ==
  /\ conns[1].pc = "done"
  /\ conns[1].resp.wh = <<200>>
  /\ conns[1].resBody = [X |-> 0]
  /\ conns[2].pc = "invoked"
  /\ conns[2].resBody = [X |-> MaxInt + 1]

\* C16: a step of a handler or of Call (any step that changes a connection
\* or the call) leaves the mapping, keys and descriptors, as it was.
C16_OnlyRegisterChangesRegistry ==
  [][ (conns' # conns \/ call' # call) => Methods' = Methods ]_vars

\* A Call went through the handler and returned nil, and the mapping is
\* still what the last Register left.
C16_Witness ==
  /\ call.pc = "returned"
  /\ call.posted
  /\ call.err = NoErr
  /\ call.srv.calls = 1
  /\ lastReg.called
  /\ Methods # << >>
  /\ Methods = RegisterResult(lastReg.before, lastReg.obj).methods

\* C17: Call returns nil only for a request the handler ended with status
\* 200 and a Response envelope; when the response has status 400, 405, 415
\* or 500, Call returns an error and the value behind the response pointer is
\* what it was before the call.
C17_CallFailsUnlessStatusOK ==
  ( /\ call.pc = "returned"
    /\ call.posted
    /\ call.srv.pc = "done" ) =>
      /\ call.err = NoErr =>
           /\ Status(call.srv.resp) = 200
           /\ Len(call.srv.resp.body) = 1
           /\ call.srv.resp.body[1].k = "json"
      /\ Status(call.srv.resp) \in {400, 405, 415, 500} =>
           /\ call.err # NoErr
           /\ call.resBody = call.resInit

\* What C18 says of one connection record k that carries a request of Call.
CallOriginated(k) ==
  LET d == DecodeRequest(k.hreq.body)
  IN /\ k.hreq.method = "POST"
     /\ k.hreq.ctype = "application/json"
     /\ d.ok
     /\ call.method \in DOMAIN Methods
     /\ d.req.ServiceMethod = Methods[call.method].Name
     /\ d.req.ServiceMethod = call.method
     /\ d.req.Seq = 0
     /\ k.pc = "done" =>
          /\ Status(k.resp) \notin {405, 415}
          /\ Status(k.resp) = 400 => k.m # NoMethod

\* C18: every request Call has sent is a POST with Content-Type exactly
\* application/json whose envelope names the method as the local mapping has
\* it, with Seq 0; the handler of the same mapping answers none of them 405,
\* 415 or 400 for an unknown method.
C18_CallRequestsPassTheGate ==
  /\ \A c \in Conns : conns[c].from = "call" => CallOriginated(conns[c])
  /\ call.srv.from = "call" => CallOriginated(call.srv)

\* A Call of Math.Div was sent, got past the lookup and was answered.
C18_Witness ==
  /\ call.pc = "returned"
  /\ call.method = "Math.Div"
  /\ call.srv.from = "call"
  /\ call.srv.pc = "done"
  /\ call.srv.looked
  /\ call.srv.m.Name = "Math.Div"

\* C19: when the POST of a Call yielded a response, the body of that
\* response has been closed by the time Call has returned.
C19_ResponseBodyClosed ==
  ( /\ call.pc = "returned"
    /\ call.posted
    /\ call.srv.pc = "done" ) => call.closed
====
